---- MODULE Spec2Model ----
(***************************************************************************)
(* A model of the two programs of the repository:                          *)
(*   - smartlead_disconnected_monitor.py (prog = "monitor"): repeated runs *)
(*     of main(): paginated fetch, diff against the store, bulk upsert,    *)
(*     reconnect marking, grouped Slack notification;                      *)
(*   - fetch_all_accounts_and_convert_to_csv.py (prog = "exporter"): one   *)
(*     run of main(): auth negotiation, http_get with 429 retries,         *)
(*     streamed pagination.                                                *)
(* Init picks the program; the variables of the other one stay put.        *)
(* FnSpec runs the pure functions (classify_group, normalize, the delay of *)
(* http_get) on their own, on arguments drawn from bounded sets.           *)
(***************************************************************************)
EXTENDS Integers, Sequences, FiniteSets, TLC

VARIABLES
    prog,        \* which script runs: "monitor" or "exporter"
    pc,          \* position of the running script
    upstream,    \* environment: the result list the endpoint serves (account ids);
                 \* in a monitor run, as much of it as the run has had
    validAuth,   \* environment: the Authorization values the endpoint accepts
    req,         \* the request of the current exchange (headers, offset, limit, timeout)
    resp,        \* the response of the current exchange
    attempt,     \* http_get: local attempt
    seen429,     \* history: consecutive 429 responses received by the current call
    caller,      \* http_get: who called ("probe" or "page")
    hres,        \* http_get: what it returned or raised
    clock,       \* monitor: number of runs started; the reading of utcnow()
    store,       \* monitor: the table, email_account_id -> row
    store0,      \* history: the table as it was when the run started
    offset,      \* fetch_disconnected / stream_accounts: local offset
    out,         \* fetch_disconnected: out; exporter: the rows yielded so far
    items,       \* the page last consumed (items / accounts)
    curr_ids,    \* monitor main: curr_ids
    prev_ids,    \* monitor main: prev_ids
    newly,       \* monitor main: newly (ids, sorted)
    posted,      \* history: the list handed to post_slack_grouped in this run
    sent,        \* history: chat_postMessage calls of this run
    error,       \* the exception that ended the run ("" if none)
    lastRun,     \* history: the last run that got to its end or to its notifications, [ok, ids]
    token,       \* exporter: the token given
    page_limit,  \* exporter: args.limit
    idx,         \* select_auth_headers: loop index
    headers,     \* exporter main: headers
    probeLog,    \* history: one entry per candidate probed, [auth, exc, resp]
    fn,          \* the function under test, when one is run on its own ("" if none)
    arg,         \* its argument
    ret,         \* what it returned, <<v>> (<<>> before the call)
    utcnow       \* upsert_current: now = utcnow(), as each of two runs that overlap
                 \* has read it (<<>> if the runs come one after the other)

vars == <<prog, pc, upstream, validAuth, req, resp, attempt, seen429, caller, hres,
          clock, store, store0, offset, out, items, curr_ids, prev_ids, newly,
          posted, sent, error, lastRun, token, page_limit, idx, headers, probeLog,
          fn, arg, ret, utcnow>>

(***************************** bounds ***************************************)
\* account identifiers are 1..MaxId
MaxId == 3
\* the endpoint serves at most MaxLen records to a monitor run
MaxLen == 2
\* monitor runs modelled
MaxRuns == 3
\* the exporter's --limit is one of 1..MaxLimit
MaxLimit == 2
\* a tags string given to classify_group on its own has at most MaxText pieces
MaxText == 3

Ids == 1..MaxId
Min(a, b) == IF a < b THEN a ELSE b

\* the lists the endpoint may serve to the monitor: in ascending order of
\* identifier, and an identifier may repeat
Lists ==
    {l \in UNION {[1..n -> Ids] : n \in 0..MaxLen} :
        \A k \in 1..(Len(l) - 1) : l[k] <= l[k + 1]}

\* the lists the endpoint may serve to the exporter, which keys nothing on the
\* identifier: each account once
Accounts == {l \in Lists : \A k \in 1..(Len(l) - 1) : l[k] < l[k + 1]}

(************************* program constants ********************************)
\* REQUEST_LIMIT_PER_PAGE is 5000 in the source; scaled to the model's lists
REQUEST_LIMIT_PER_PAGE == 2
\* execute_values(..., page_size=500) in the source; scaled likewise
UPSERT_PAGE_SIZE == 2
SMARTLEAD_BEARER == "T"
SLACK_BOT_TOKEN == "xoxb"
MAX_429_RETRIES == 4
\* http_get: backoff = 1.5 (seconds); the model counts delays in half seconds
backoff == 3
REQUEST_TIMEOUT == 30
TOKEN_PROBE_TIMEOUT == 12

(****************************** HTTP ****************************************)
NoHeaders == [Accept |-> "", Authorization |-> <<>>]
NoReq == [headers |-> NoHeaders, offset |-> 0, limit |-> 0, timeout |-> 0]
NoResp == [status |-> 0, text |-> "", ok |-> FALSE, accounts |-> <<>>]
NoResult == [exc |-> "", msg |-> "", resp |-> NoResp]

\* the slice of the result list the endpoint serves for offset and limit
Page(list, off, lim) == SubSeq(list, off + 1, Min(off + lim, Len(list)))

\* What the endpoint may answer. A success envelope (200, JSON, ok = true, the
\* page) needs an accepted Authorization value; a request without one gets a
\* 200 failure envelope instead. Any request may be rejected (401, or a body
\* naming the token), rate limited, fail on the server, or come back unparsable.
Responses(accepted, page) ==
    (IF accepted
     THEN {[status |-> 200, text |-> "json", ok |-> TRUE, accounts |-> page]}
     ELSE {[status |-> 200, text |-> "json", ok |-> FALSE, accounts |-> <<>>]})
    \cup {[status |-> s, text |-> "garbage", ok |-> FALSE, accounts |-> <<>>] :
            s \in {200, 401, 404, 429, 500}}
    \cup {[status |-> 200, text |-> "Invalid Token", ok |-> FALSE, accounts |-> <<>>],
          [status |-> 500, text |-> "jwt malformed", ok |-> FALSE, accounts |-> <<>>]}

\* fetch_disconnected tells responses apart by status (429, an error status, any
\* other) and by whether the body parses only: one response of each kind, the
\* error statuses being a rejection (401) and a server failure (500), and the
\* bodies that parse a page or a failure envelope whose message names the token
MonitorResponses(page) ==
    {[status |-> 200, text |-> "json", ok |-> TRUE, accounts |-> page],
     [status |-> 200, text |-> "json: Invalid Token", ok |-> FALSE, accounts |-> <<>>],
     [status |-> 200, text |-> "garbage", ok |-> FALSE, accounts |-> <<>>],
     [status |-> 401, text |-> "garbage", ok |-> FALSE, accounts |-> <<>>],
     [status |-> 429, text |-> "garbage", ok |-> FALSE, accounts |-> <<>>],
     [status |-> 500, text |-> "garbage", ok |-> FALSE, accounts |-> <<>>]}

\* resp.json() succeeds
JsonOk(r) == r.text \in {"json", "json: Invalid Token"}

\* str.lower() on the pieces of text of the model
Lower(p) ==
    CASE p = "Bearer" -> "bearer"
      [] p = "BEARER" -> "bearer"
      [] p = "Invalid Token" -> "invalid token"
      [] p = "json: Invalid Token" -> "json: invalid token"
      [] OTHER -> p

(************************** exporter: auth **********************************)
\* A token is a sequence of words. The credential is <<"T">>; a user may have
\* pasted it with the word Bearer in front.
Tokens == {<<"T">>, <<"Bearer", "T">>, <<"BEARER", "T">>}

\* the Authorization values an endpoint may accept for the credential
AuthValues == {<<"T">>, <<"Bearer", "T">>}

\* make_header_variants: token normalised to the bare credential
TokenNorm(t) == IF Len(t) >= 2 /\ Lower(t[1]) = "bearer" THEN Tail(t) ELSE t

\* make_header_variants returning [bearer, raw]
make_header_variants_BearerFirst(t) ==
    <<[Accept |-> "application/json", Authorization |-> <<"Bearer">> \o TokenNorm(t)],
      [Accept |-> "application/json", Authorization |-> TokenNorm(t)]>>

\* make_header_variants: [raw, bearer]
make_header_variants(t) ==
    <<[Accept |-> "application/json", Authorization |-> TokenNorm(t)],
      [Accept |-> "application/json", Authorization |-> <<"Bearer">> \o TokenNorm(t)]>>

\* http_get: the classic auth failures
AuthFailure(r) ==
    \/ r.status \in {401, 403}
    \/ Lower(r.text) \in {"invalid token", "json: invalid token"}
    \/ Lower(r.text) = "jwt malformed"

\* http_get giving up at attempt >= MAX_429_RETRIES
http_get_step_GivesUpEarly(r, att) ==
    IF AuthFailure(r)
    THEN [attempt |-> att, done |-> TRUE,
          result |-> [exc |-> "TokenInvalidError", msg |-> "Auth rejected",
                      resp |-> NoResp]]
    ELSE IF r.status = 429
    THEN IF att + 1 >= MAX_429_RETRIES
         THEN [attempt |-> att + 1, done |-> TRUE,
               result |-> [exc |-> "NonRecoverableHTTPError",
                           msg |-> "Too many 429 responses", resp |-> NoResp]]
         ELSE [attempt |-> att + 1, done |-> FALSE, result |-> NoResult]
    ELSE IF 500 <= r.status /\ r.status < 600
    THEN [attempt |-> att, done |-> TRUE,
          result |-> [exc |-> "NonRecoverableHTTPError", msg |-> "Server error",
                      resp |-> NoResp]]
    ELSE [attempt |-> att, done |-> TRUE,
          result |-> [exc |-> "", msg |-> "", resp |-> r]]

\* http_get: what one response makes of the call, given the attempts so far:
\* [attempt, done, result]
http_get_step(r, att) ==
    IF AuthFailure(r)
    THEN [attempt |-> att, done |-> TRUE,
          result |-> [exc |-> "TokenInvalidError", msg |-> "Auth rejected",
                      resp |-> NoResp]]
    ELSE IF r.status = 429
    THEN IF att + 1 > MAX_429_RETRIES
         THEN [attempt |-> att + 1, done |-> TRUE,
               result |-> [exc |-> "NonRecoverableHTTPError",
                           msg |-> "Too many 429 responses", resp |-> NoResp]]
         ELSE [attempt |-> att + 1, done |-> FALSE, result |-> NoResult]
    ELSE IF 500 <= r.status /\ r.status < 600
    THEN [attempt |-> att, done |-> TRUE,
          result |-> [exc |-> "NonRecoverableHTTPError", msg |-> "Server error",
                      resp |-> NoResp]]
    ELSE [attempt |-> att, done |-> TRUE,
          result |-> [exc |-> "", msg |-> "", resp |-> r]]

\* select_auth_headers returning h for any parsed body, whatever its ok field
ProbeOutcome_IgnoresOk(res) ==
    IF res.exc # "" THEN res.exc
    ELSE IF ~JsonOk(res.resp) THEN "Exception"
    ELSE "ok"

\* select_auth_headers: what a finished probe says about its candidate
ProbeOutcome(res) ==
    IF res.exc # "" THEN res.exc
    ELSE IF ~JsonOk(res.resp) THEN "Exception"
    ELSE IF res.resp.ok THEN "ok"
    ELSE "ok=false"

(************************ monitor: the store ********************************)
\* load_prev_ids with the WHERE clause forgotten
load_prev_ids_NoWhere(s) == DOMAIN s

\* load_prev_ids: SELECT email_account_id WHERE currently_disconnected = TRUE
load_prev_ids(s) == {i \in DOMAIN s : s[i].cd}

NewRow(now) == [cd |-> TRUE, count |-> 1, first |-> now, last |-> now]

\* UpsertRow with disconnect_count = disconnect_count + 1 on every conflict
UpsertRow_AlwaysCounts(s, i, now) ==
    IF i \in DOMAIN s
    THEN [s EXCEPT ![i] = [cd |-> TRUE, count |-> s[i].count + 1,
                           first |-> s[i].first, last |-> now]]
    ELSE [j \in DOMAIN s \cup {i} |-> IF j = i THEN NewRow(now) ELSE s[j]]

\* UpsertRow without currently_disconnected = TRUE in the SET list
UpsertRow_KeepsFlag(s, i, now) ==
    IF i \in DOMAIN s
    THEN [s EXCEPT ![i] = [cd |-> s[i].cd,
                           count |-> IF s[i].cd = FALSE THEN s[i].count + 1
                                                         ELSE s[i].count,
                           first |-> s[i].first, last |-> now]]
    ELSE [j \in DOMAIN s \cup {i} |-> IF j = i THEN NewRow(now) ELSE s[j]]

\* UpsertRow with first_disconnected_at = EXCLUDED.first_disconnected_at added
UpsertRow_ResetsFirst(s, i, now) ==
    IF i \in DOMAIN s
    THEN [s EXCEPT ![i] = [cd |-> TRUE,
                           count |-> IF s[i].cd = FALSE THEN s[i].count + 1
                                                         ELSE s[i].count,
                           first |-> now, last |-> now]]
    ELSE [j \in DOMAIN s \cup {i} |-> IF j = i THEN NewRow(now) ELSE s[j]]

\* one row of the INSERT ... ON CONFLICT (email_account_id) DO UPDATE
UpsertRow(s, i, now) ==
    IF i \in DOMAIN s
    THEN [s EXCEPT ![i] = [cd |-> TRUE,
                           count |-> IF s[i].cd = FALSE THEN s[i].count + 1
                                                         ELSE s[i].count,
                           first |-> s[i].first,
                           last |-> now]]
    ELSE [j \in DOMAIN s \cup {i} |-> IF j = i THEN NewRow(now) ELSE s[j]]

RECURSIVE UpsertAll(_, _, _)
UpsertAll(s, rows, now) ==
    IF rows = <<>> THEN s
    ELSE UpsertAll(UpsertRow(s, Head(rows), now), Tail(rows), now)

\* execute_values sends one INSERT per page_size rows; PostgreSQL refuses an
\* INSERT ... ON CONFLICT DO UPDATE that would touch one row twice
CardinalityViolation(rows) ==
    \E a, b \in 1..Len(rows) :
        /\ a < b
        /\ rows[a] = rows[b]
        /\ (a - 1) \div UPSERT_PAGE_SIZE = (b - 1) \div UPSERT_PAGE_SIZE

\* upsert_current whose connection commits what was written before a failure
upsert_current_NoRollback(s, rows, k, now) == UpsertAll(s, SubSeq(rows, 1, k), now)

\* upsert_current, lines 180-182, as the table shows it once the call is over,
\* k being the number of rows written when it ended: conn.commit() comes after
\* the last chunk, and an exception leaves the with block before it, so that
\* the connection rolls the transaction back
upsert_current(s, rows, k, now) ==
    IF k = Len(rows) THEN UpsertAll(s, rows, now) ELSE s

\* the rows after which upsert_current can fail: those before it were accepted
FailPoints(rows) ==
    {k \in 0..(Len(rows) - 1) : ~CardinalityViolation(SubSeq(rows, 1, k))}

\* the exception raised at the row after the k-th
UpsertError(rows, k) ==
    IF CardinalityViolation(SubSeq(rows, 1, k + 1))
    THEN "CardinalityViolation"
    ELSE "OperationalError in upsert_current"

\* mark_reconnected deleting the rows of the accounts that came back
mark_reconnected_Deletes(s, prev, curr) ==
    [i \in DOMAIN s \ (prev \ curr) |-> s[i]]

\* mark_reconnected returning early on an empty current set
mark_reconnected_SkipsEmpty(s, prev, curr) ==
    IF curr = {} \/ prev \ curr = {} THEN s
    ELSE [i \in DOMAIN s |-> IF i \in prev \ curr THEN [s[i] EXCEPT !.cd = FALSE]
                                                  ELSE s[i]]

\* mark_reconnected: UPDATE ... SET currently_disconnected = FALSE WHERE id = ANY(diff)
mark_reconnected(s, prev, curr) ==
    LET diff == prev \ curr IN
    IF diff = {} THEN s
    ELSE [i \in DOMAIN s |-> IF i \in diff THEN [s[i] EXCEPT !.cd = FALSE] ELSE s[i]]

\* sorted(new_ids)
RECURSIVE Sorted(_)
Sorted(S) ==
    IF S = {} THEN <<>>
    ELSE LET m == CHOOSE x \in S : \A y \in S : x <= y
         IN <<m>> \o Sorted(S \ {m})

SeqIds(q) == {q[k] : k \in 1..Len(q)}

(************************ monitor: normalize ********************************)
\* A text is a sequence of pieces; "," and " " are the comma and a blank.
\* The tag names of the modelled accounts (email_account_tag_mappings).
TagsOf(i) ==
    CASE i = 1 -> << <<"x", "00vo">> >>
      [] i = 2 -> << <<"00EN">> >>
      [] i = 3 -> <<>>
      [] OTHER -> << <<"00en">>, <<"a", "00VO">> >>

\* ",".join(tags)
RECURSIVE Join(_)
Join(names) ==
    IF names = <<>> THEN <<>>
    ELSE IF Len(names) = 1 THEN names[1]
    ELSE names[1] \o <<",">> \o Join(Tail(names))

\* item.get(key, True) with False as the default
GetFlag_DefaultFalse(v) == IF v = "missing" THEN "false" ELSE v

\* item.get(key, True): a health flag is "true", "false" or "missing"
GetFlag(v) == IF v = "missing" THEN "true" ELSE v

\* normalize: tags and disconnection_type of the row made of a raw item
\* [names, smtp, imap]; a mapping without a tag name contributes nothing
normalize(item) ==
    LET tags == SelectSeq(item.names, LAMBDA n : n # <<>>)
        smtp_ok == GetFlag(item.smtp) = "true"
        imap_ok == GetFlag(item.imap) = "true"
    IN [tags |-> Join(tags),
        disconnection_type |->
            IF ~smtp_ok /\ ~imap_ok THEN "SMTP + IMAP"
            ELSE IF ~smtp_ok THEN "SMTP"
            ELSE IF ~imap_ok THEN "IMAP"
            ELSE "None"]

\* the raw items of the modelled accounts come from the query for failed SMTP
RawItem(i) == [names |-> TagsOf(i), smtp |-> "false", imap |-> "true"]

(************************ monitor: grouping *********************************)
\* str.upper() on the pieces of text of the model
Upper(p) ==
    CASE p = "00vo" -> "00VO"
      [] p = "00en" -> "00EN"
      [] p = "00sm" -> "00SM"
      [] p = "a" -> "A"
      [] p = "x" -> "X"
      [] OTHER -> p

\* raw_tags.split(",")
RECURSIVE Split(_)
Split(t) ==
    IF \A k \in 1..Len(t) : t[k] # "," THEN <<t>>
    ELSE LET c == CHOOSE k \in 1..Len(t) : t[k] = "," /\ \A j \in 1..(k - 1) : t[j] # ","
         IN <<SubSeq(t, 1, c - 1)>> \o Split(SubSeq(t, c + 1, Len(t)))

\* t.strip()
RECURSIVE Strip(_)
Strip(t) ==
    IF t = <<>> THEN t
    ELSE IF Head(t) = " " THEN Strip(Tail(t))
    ELSE IF t[Len(t)] = " " THEN Strip(SubSeq(t, 1, Len(t) - 1))
    ELSE t

\* [t.strip().upper() for t in raw_tags.split(",") if t.strip()]
TagList(raw_tags) ==
    LET parts == Split(raw_tags)
        kept == SelectSeq(parts, LAMBDA t : Strip(t) # <<>>)
    IN [k \in 1..Len(kept) |-> [j \in 1..Len(Strip(kept[k])) |-> Upper(Strip(kept[k])[j])]]

\* marker in t: a rule's substring occurs in a tag when one of its pieces is it
In(marker, tag) == \E k \in 1..Len(tag) : tag[k] = marker
\* any(marker in t for t in tags)
AnyTag(marker, tags) == \E k \in 1..Len(tags) : In(marker, tags[k])

\* classify_group with the ENDY rule tried before the VOLTIC rule
classify_group_EndyFirst(raw_tags) ==
    LET tags == TagList(raw_tags) IN
    IF AnyTag("00EN", tags) THEN "ENDY"
    ELSE IF AnyTag("00VO", tags) THEN "VOLTIC"
    ELSE IF AnyTag("00SM", tags) THEN "SCALEDMAIL"
    ELSE IF AnyTag("00CI", tags) THEN "CHEAPINBOXES"
    ELSE IF AnyTag("00WI", tags) THEN "WINNR"
    ELSE IF AnyTag("00IKR", tags) THEN "INBOXKIT"
    ELSE IF AnyTag("00PK", tags) THEN "PEEKER"
    ELSE "DEFAULT"

\* classify_group, of account["tags"]
classify_group(raw_tags) ==
    LET tags == TagList(raw_tags) IN
    IF AnyTag("00VO", tags) THEN "VOLTIC"
    ELSE IF AnyTag("00EN", tags) THEN "ENDY"
    ELSE IF AnyTag("00SM", tags) THEN "SCALEDMAIL"
    ELSE IF AnyTag("00CI", tags) THEN "CHEAPINBOXES"
    ELSE IF AnyTag("00WI", tags) THEN "WINNR"
    ELSE IF AnyTag("00IKR", tags) THEN "INBOXKIT"
    ELSE IF AnyTag("00PK", tags) THEN "PEEKER"
    ELSE "DEFAULT"

\* main, line 245, and post_slack_grouped, line 199: each fetched item is
\* normalized and its row classified by its tags
Groups == [i \in Ids |-> classify_group(normalize(RawItem(i)).tags)]

\* the group of the row of account i
GroupOf(i) == Groups[i]

CHANNEL_MAP ==
    {"VOLTIC", "ENDY", "SCALEDMAIL", "CHEAPINBOXES", "WINNR", "INBOXKIT", "PEEKER",
     "DEFAULT"}

\* grouped: the groups in order of first appearance, each with its rows in order
RECURSIVE GroupOrder(_, _)
GroupOrder(rows, seen) ==
    IF rows = <<>> THEN <<>>
    ELSE LET g == GroupOf(Head(rows)) IN
         IF g \in seen THEN GroupOrder(Tail(rows), seen)
         ELSE <<g>> \o GroupOrder(Tail(rows), seen \cup {g})

\* what a chat_postMessage call may do: return, raise SlackApiError (the API
\* answered with an error), or raise another exception (the request did not
\* get through: URLError, a timeout)
SendOutcomes == {"ok", "SlackApiError", "URLError"}

\* except SlackApiError: the exceptions post_slack_grouped does not catch
Uncaught(o) == o \notin {"ok", "SlackApiError"}

\* GroupRows with every row of the run in every group
GroupRows_AllRows(rows, g) == rows

\* grouped[g]: the rows of the group, in order
GroupRows(rows, g) == SelectSeq(rows, LAMBDA i : GroupOf(i) = g)

\* the chat_postMessage calls post_slack_grouped makes if none raises an
\* uncaught exception, in order
Messages(rows, total_curr, total_prev) ==
    LET order == SelectSeq(GroupOrder(rows, {}), LAMBDA g : g \in CHANNEL_MAP) IN
    [k \in 1..Len(order) |->
        [group |-> order[k],
         count |-> Len(GroupRows(rows, order[k])),
         ids |-> GroupRows(rows, order[k]),
         total_curr |-> total_curr,
         total_prev |-> total_prev]]

\* the calls made, outcome being what the call of each group does: up to and
\* including the first that raises an uncaught exception
Attempted(msgs, outcome) ==
    IF \A k \in 1..Len(msgs) : ~Uncaught(outcome[msgs[k].group]) THEN msgs
    ELSE SubSeq(msgs, 1, CHOOSE k \in 1..Len(msgs) :
                            /\ Uncaught(outcome[msgs[k].group])
                            /\ \A j \in 1..(k - 1) : ~Uncaught(outcome[msgs[j].group]))

(***************************** Init *****************************************)
MonitorInit ==
    /\ prog = "monitor"
    /\ pc = "idle"
    /\ upstream = <<>>
    /\ validAuth = {}
    /\ token = <<>>
    /\ page_limit = 0

ExporterInit ==
    /\ prog = "exporter"
    /\ pc = "e_probe"
    /\ upstream \in Accounts
    /\ validAuth \in SUBSET AuthValues
    /\ token \in Tokens
    /\ page_limit \in 1..MaxLimit

Init ==
    /\ (MonitorInit \/ ExporterInit)
    /\ req = NoReq
    /\ resp = NoResp
    /\ attempt = 0
    /\ seen429 = 0
    /\ caller = ""
    /\ hres = NoResult
    /\ clock = 0
    /\ store = [i \in {} |-> 0]
    /\ store0 = [i \in {} |-> 0]
    /\ offset = 0
    /\ out = <<>>
    /\ items = <<>>
    /\ curr_ids = {}
    /\ prev_ids = {}
    /\ newly = <<>>
    /\ posted = <<>>
    /\ sent = <<>>
    /\ error = ""
    /\ lastRun = [ok |-> FALSE, ids |-> {}]
    /\ idx = 0
    /\ headers = NoHeaders
    /\ probeLog = <<>>
    /\ fn = ""
    /\ arg = <<>>
    /\ ret = <<>>
    /\ utcnow = <<>>

(*************************** monitor: main **********************************)
\* fetch_disconnected counting pages instead of records: offset += 1
FetchAdvance_ByOne(off, lim) == off + 1

\* fetch_disconnected: offset += limit
FetchAdvance(off, lim) == off + lim

\* fetch_disconnected: if len(items) < limit: break
FetchStops(n, lim) == n < lim

envVars == <<prog, validAuth, token, page_limit, fn, arg, ret, utcnow>>
httpVars == <<attempt, seen429, caller, hres>>
exporterVars == <<idx, headers, probeLog>>
diffVars == <<curr_ids, prev_ids, newly>>

\* an uncaught exception ends the process: its locals and its connection are gone
Abort(e) ==
    /\ pc' = "aborted"
    /\ error' = e
    /\ upstream' = <<>>
    /\ req' = NoReq
    /\ resp' = NoResp
    /\ offset' = 0
    /\ out' = <<>>
    /\ items' = <<>>
    /\ curr_ids' = {}
    /\ prev_ids' = {}
    /\ newly' = <<>>

\* main() is started (by the scheduler)
StartRun ==
    /\ prog = "monitor"
    /\ pc \in {"idle", "done", "aborted"}
    /\ clock < MaxRuns
    /\ clock' = clock + 1
    /\ upstream' = <<>>
    /\ store0' = store
    /\ offset' = 0
    /\ out' = <<>>
    /\ items' = <<>>
    /\ curr_ids' = {}
    /\ prev_ids' = {}
    /\ newly' = <<>>
    /\ posted' = <<>>
    /\ sent' = <<>>
    /\ error' = ""
    /\ req' = NoReq
    /\ resp' = NoResp
    /\ pc' = "m_req"
    /\ UNCHANGED <<envVars, httpVars, exporterVars, store, lastRun>>

MonitorHeaders ==
    [Accept |-> "application/json", Authorization |-> <<"Bearer", SMARTLEAD_BEARER>>]

\* the lists the endpoint may be serving to the run: those that begin with what
\* the run has had of the list so far (upstream holds that much of it)
Served ==
    {l \in Lists : /\ Len(l) >= Len(upstream)
                   /\ SubSeq(l, 1, Len(upstream)) = upstream}

\* fetch_disconnected, lines 47-61: what the response r to the request at the
\* current offset leads to, l being the list the endpoint serves
FetchExchange(l, r) ==
    LET q == [headers |-> MonitorHeaders, offset |-> offset,
              limit |-> REQUEST_LIMIT_PER_PAGE, timeout |-> 30]
    IN
    IF r.status = 429
    THEN \* time.sleep(2)
         /\ pc' = "m_sleep"
         /\ req' = q
         /\ resp' = r
         /\ UNCHANGED <<upstream, offset, out, items, diffVars, error>>
    ELSE IF r.status >= 400
    THEN \* resp.raise_for_status()
         Abort("HTTPError")
    ELSE IF ~JsonOk(r)
    THEN \* resp.json() raises
         Abort("JSONDecodeError")
    ELSE /\ items' = r.accounts
         /\ out' = out \o r.accounts
         /\ IF FetchStops(Len(r.accounts), REQUEST_LIMIT_PER_PAGE)
            THEN \* break: the last exchange stays in sight
                 /\ pc' = "m_fetched"
                 /\ offset' = offset
                 /\ req' = q
                 /\ resp' = r
            ELSE \* round again: params and resp are built anew
                 /\ pc' = "m_req"
                 /\ offset' = FetchAdvance(offset, REQUEST_LIMIT_PER_PAGE)
                 /\ req' = NoReq
                 /\ resp' = NoResp
         /\ upstream' = IF r.ok
                      THEN SubSeq(l, 1, Min(Len(l), offset + REQUEST_LIMIT_PER_PAGE))
                      ELSE upstream
         /\ UNCHANGED <<diffVars, error>>

\* fetch_disconnected: one pass of the loop body: session.get(...) at the
\* current offset and what the response leads to: a page of a list the
\* endpoint may be serving, or one of the answers that carry no page
FetchRequest ==
    /\ pc = "m_req"
    /\ \/ \E l \in Served :
          \E r \in MonitorResponses(Page(l, offset, REQUEST_LIMIT_PER_PAGE)) :
             r.ok /\ FetchExchange(l, r)
       \/ \E r \in MonitorResponses(<<>>) :
             ~r.ok /\ FetchExchange(upstream, r)
    /\ UNCHANGED <<envVars, httpVars, exporterVars, clock, store, store0, posted, sent,
                   lastRun>>

\* fetch_disconnected: the sleep after a 429 is over; continue, to the top of
\* the loop, where params and resp are built anew
FetchRetry ==
    /\ pc = "m_sleep"
    /\ pc' = "m_req"
    /\ req' = NoReq
    /\ resp' = NoResp
    /\ UNCHANGED <<envVars, httpVars, exporterVars, diffVars, upstream, clock, store,
                   store0, offset, out, items, posted, sent, error, lastRun>>

\* main, lines 244-252: fetch_disconnected has returned out (its other locals
\* are gone, and the endpoint's list is of no concern any more); normalize,
\* curr_ids, load_prev_ids, new_ids, newly
Diff ==
    /\ pc = "m_fetched"
    /\ curr_ids' = SeqIds(out)
    /\ prev_ids' = load_prev_ids(store)
    /\ newly' = Sorted(SeqIds(out) \ load_prev_ids(store))
    /\ pc' = "m_diffed"
    /\ upstream' = <<>>
    /\ req' = NoReq
    /\ resp' = NoResp
    /\ offset' = 0
    /\ items' = <<>>
    /\ UNCHANGED <<envVars, httpVars, exporterVars, clock, store, store0, out, posted,
                   sent, error, lastRun>>

\* main: if current: upsert_current(current); it commits every row, or fails
\* at some row and leaves the table as it was
Upsert ==
    /\ pc = "m_diffed"
    /\ IF out = <<>>
       THEN /\ pc' = "m_upserted"
            /\ UNCHANGED <<store, upstream, req, resp, offset, out, items, diffVars,
                           error>>
       ELSE \/ /\ ~CardinalityViolation(out)
               /\ store' = upsert_current(store, out, Len(out), clock)
               /\ pc' = "m_upserted"
               /\ UNCHANGED <<upstream, req, resp, offset, out, items, diffVars,
                              error>>
            \/ \E k \in FailPoints(out) :
                   /\ store' = upsert_current(store, out, k, clock)
                   /\ Abort(UpsertError(out, k))
    /\ UNCHANGED <<envVars, httpVars, exporterVars, clock, store0, posted, sent, lastRun>>

\* main: mark_reconnected(prev_ids, curr_ids)
MarkReconnected ==
    /\ pc = "m_upserted"
    /\ store' = mark_reconnected(store, prev_ids, curr_ids)
    /\ pc' = "m_marked"
    /\ UNCHANGED <<envVars, httpVars, exporterVars, diffVars, upstream, clock, store0,
                   req, resp, offset, out, items, posted, sent, error, lastRun>>

\* mark_reconnected's UPDATE or its commit fails: the transaction is rolled
\* back and the exception ends the run
DbFailure ==
    /\ pc = "m_upserted"
    /\ prev_ids \ curr_ids # {}
    /\ Abort("OperationalError in mark_reconnected")
    /\ UNCHANGED <<envVars, httpVars, exporterVars, clock, store, store0, posted, sent,
                   lastRun>>

\* main: if newly: post_slack_grouped(newly, len(curr_ids), len(prev_ids)),
\* and the end of main, run from position p; an exception out of
\* chat_postMessage that is not a SlackApiError ends the run
NotifyFrom(p) ==
    /\ pc = p
    /\ lastRun' = [ok |-> TRUE, ids |-> curr_ids]
    /\ IF newly = <<>>
       THEN /\ pc' = "done"
            /\ UNCHANGED <<posted, sent, diffVars, upstream, req, resp, offset, out,
                           items, error>>
       ELSE IF SLACK_BOT_TOKEN = ""
       THEN /\ posted' = newly
            /\ sent' = <<>>
            /\ pc' = "done"
            /\ UNCHANGED <<diffVars, upstream, req, resp, offset, out, items, error>>
       ELSE LET msgs == Messages(newly, Cardinality(curr_ids), Cardinality(prev_ids))
            IN
            \E outcome \in [{GroupOf(newly[k]) : k \in 1..Len(newly)} -> SendOutcomes] :
               LET calls == Attempted(msgs, outcome)
                   last == outcome[calls[Len(calls)].group]
               IN /\ posted' = newly
                  /\ sent' = calls
                  /\ IF Uncaught(last)
                     THEN Abort(last)
                     ELSE /\ pc' = "done"
                          /\ UNCHANGED <<diffVars, upstream, req, resp, offset, out,
                                         items, error>>
    /\ UNCHANGED <<envVars, httpVars, exporterVars, clock, store, store0>>

\* main with lines 256-260 moved before line 253
Notify_BeforeStore == NotifyFrom("m_diffed")

\* main, lines 256-260: after upsert_current and mark_reconnected
Notify == NotifyFrom("m_marked")

(************************** exporter: main **********************************)
monitorVars == <<clock, store, store0, curr_ids, prev_ids, newly, posted, sent, lastRun>>

\* http_get is entered
Call(h, off, lim, timeout, who) ==
    /\ req' = [headers |-> h, offset |-> off, limit |-> lim, timeout |-> timeout]
    /\ resp' = NoResp
    /\ attempt' = 0
    /\ seen429' = 0
    /\ caller' = who
    /\ hres' = NoResult
    /\ pc' = "h_req"

\* select_auth_headers: the loop reaches candidate idx and probes it
ProbeCall ==
    /\ pc = "e_probe"
    /\ Call(make_header_variants(token)[idx + 1], 0, 1, TOKEN_PROBE_TIMEOUT, "probe")
    /\ UNCHANGED <<envVars, upstream, monitorVars, exporterVars, offset, out, items,
                   error>>

\* http_get: one pass of the loop body: requests.get(...) and what the
\* response leads to (return, raise, or sleep and go round again)
HttpStep ==
    /\ pc = "h_req"
    /\ \E r \in Responses(req.headers.Authorization \in validAuth,
                          Page(upstream, req.offset, req.limit)) :
          LET step == http_get_step(r, attempt) IN
          /\ resp' = r
          /\ attempt' = step.attempt
          /\ hres' = step.result
          /\ pc' = IF step.done THEN "h_ret" ELSE "h_req"
          /\ seen429' = IF r.status = 429 THEN seen429 + 1 ELSE seen429
    /\ UNCHANGED <<envVars, upstream, monitorVars, exporterVars, caller, req, offset,
                   out, items, error>>

\* http_get has returned or raised: its frame is gone
Return ==
    /\ req' = NoReq
    /\ resp' = NoResp
    /\ attempt' = 0
    /\ seen429' = 0
    /\ caller' = ""
    /\ hres' = NoResult

\* select_auth_headers: the probe is over; return h, go on to the next
\* candidate, or raise TokenInvalidError (main then exits 1)
ProbeReturn ==
    /\ pc = "h_ret"
    /\ caller = "probe"
    /\ probeLog' = Append(probeLog, [auth |-> req.headers.Authorization,
                                     exc |-> hres.exc, resp |-> hres.resp])
    /\ IF ProbeOutcome(hres) = "ok"
       THEN /\ headers' = req.headers
            /\ offset' = 0
            /\ pc' = "e_stream"
            /\ UNCHANGED <<idx, error>>
       ELSE /\ idx' = idx + 1
            /\ IF idx + 1 = Len(make_header_variants(token))
               THEN pc' = "e_exit" /\ error' = "TokenInvalidError"
               ELSE pc' = "e_probe" /\ error' = error
            /\ UNCHANGED <<headers, offset>>
    /\ Return
    /\ UNCHANGED <<envVars, upstream, monitorVars, out, items>>

\* stream_accounts: fetch_page(headers, offset, page_limit)
PageCall ==
    /\ pc = "e_stream"
    /\ Call(headers, offset, page_limit, REQUEST_TIMEOUT, "page")
    /\ UNCHANGED <<envVars, upstream, monitorVars, exporterVars, offset, out, items,
                   error>>

\* fetch_page after http_get, and the rest of stream_accounts' loop body; an
\* exception ends main with exit code 1
PageReturn ==
    /\ pc = "h_ret"
    /\ caller = "page"
    /\ IF hres.exc # ""
       THEN pc' = "e_exit" /\ error' = hres.exc /\ UNCHANGED <<offset, out, items>>
       ELSE IF hres.resp.status >= 400
       THEN /\ pc' = "e_exit"
            /\ error' = "NonRecoverableHTTPError"
            /\ UNCHANGED <<offset, out, items>>
       ELSE IF ~JsonOk(hres.resp)
       THEN pc' = "e_exit" /\ error' = "JSONDecodeError" /\ UNCHANGED <<offset, out, items>>
       ELSE /\ items' = hres.resp.accounts
            /\ IF hres.resp.accounts = <<>>
               THEN pc' = "e_done" /\ UNCHANGED <<offset, out>>
               ELSE /\ out' = out \o hres.resp.accounts
                    /\ offset' = offset + Len(hres.resp.accounts)
                    /\ pc' = "e_stream"
            /\ error' = error
    /\ Return
    /\ UNCHANGED <<envVars, upstream, monitorVars, exporterVars>>

ExporterNext ==
    \/ ProbeCall
    \/ HttpStep
    \/ ProbeReturn
    \/ PageCall
    \/ PageReturn

MonitorNext ==
    \/ StartRun
    \/ FetchRequest
    \/ FetchRetry
    \/ Diff
    \/ Upsert
    \/ MarkReconnected
    \/ DbFailure
    \/ Notify

(********************* the pure functions on their own **********************)
\* http_get, lines 106-110: the delay before the retry that follows the 429
\* numbered attempt, in half seconds. The Retry-After header is "None" when
\* the response has none; float() parses "2" and fails on "soon".
Float(h) == CASE h = "2" -> 4 [] h = "7" -> 14 [] OTHER -> -1
FloatRaises(h) == h \notin {"2", "7"}
sleep_s(retry_after, att) ==
    IF retry_after \notin {"None", ""}
    THEN IF FloatRaises(retry_after) THEN backoff * att ELSE Float(retry_after)
    ELSE backoff * att

\* the pieces of text a tags string is made of
Pieces == {"00vo", "00VO", "00en", "00EN", "00sm", "00CI", "00WI", "00IKR", "00PK",
           "x", ",", " "}
Texts == UNION {[1..n -> Pieces] : n \in 0..MaxText}

\* raw items: up to two tag mappings (one may lack its name), the two flags
TagNames == {<<>>, <<"x">>, <<"00EN">>, <<" ", "a">>}
Flags == {"true", "false", "missing"}
RawItems ==
    [names : UNION {[1..n -> TagNames] : n \in 0..2}, smtp : Flags, imap : Flags]

\* the Retry-After headers of the consecutive 429 responses to one http_get call
RetryAfters == {"None", "", "2", "soon"}
RetryAfterRuns == UNION {[1..n -> RetryAfters] : n \in 1..MAX_429_RETRIES}

FnInit ==
    /\ \/ fn = "classify_group" /\ arg \in Texts
       \/ fn = "normalize" /\ arg \in RawItems
       \/ fn = "sleep_s" /\ arg \in RetryAfterRuns
    /\ ret = <<>>
    /\ utcnow = <<>>
    /\ prog = ""
    /\ pc = ""
    /\ upstream = <<>>
    /\ validAuth = {}
    /\ token = <<>>
    /\ page_limit = 0
    /\ req = NoReq
    /\ resp = NoResp
    /\ attempt = 0
    /\ seen429 = 0
    /\ caller = ""
    /\ hres = NoResult
    /\ clock = 0
    /\ store = [i \in {} |-> 0]
    /\ store0 = [i \in {} |-> 0]
    /\ offset = 0
    /\ out = <<>>
    /\ items = <<>>
    /\ curr_ids = {}
    /\ prev_ids = {}
    /\ newly = <<>>
    /\ posted = <<>>
    /\ sent = <<>>
    /\ error = ""
    /\ lastRun = [ok |-> FALSE, ids |-> {}]
    /\ idx = 0
    /\ headers = NoHeaders
    /\ probeLog = <<>>

fnFrame ==
    <<prog, pc, upstream, validAuth, req, resp, attempt, seen429, caller, hres, clock,
      store, store0, offset, out, items, curr_ids, prev_ids, newly, posted, sent,
      error, lastRun, token, page_limit, idx, headers, probeLog, fn, arg, utcnow>>

\* classify_group(account) is called
ApplyClassify ==
    /\ fn = "classify_group"
    /\ ret = <<>>
    /\ ret' = <<classify_group(arg)>>
    /\ UNCHANGED fnFrame

\* normalize(item) is called
ApplyNormalize ==
    /\ fn = "normalize"
    /\ ret = <<>>
    /\ ret' = <<normalize(arg)>>
    /\ UNCHANGED fnFrame

\* http_get has its next 429 and computes the delay before the retry
ApplySleep ==
    /\ fn = "sleep_s"
    /\ Len(ret) < Len(arg)
    /\ ret' = Append(ret, sleep_s(arg[Len(ret) + 1], Len(ret) + 1))
    /\ UNCHANGED fnFrame

FnNext ==
    \/ ApplyClassify
    \/ ApplyNormalize
    \/ ApplySleep

FnSpec == FnInit /\ [][FnNext]_vars

(********************* two monitor runs at the same time ********************)
(* Nothing in main keeps a second run from starting while one is under way. *)
(* Both runs have fetched the same list, out. A run is at line 248          *)
(* (load_prev_ids), at the head of upsert_current (now = utcnow()), at its  *)
(* transaction, or at mark_reconnected; pc, prev_ids, utcnow and error hold *)
(* one value per run. load_prev_ids is one SELECT, mark_reconnected one     *)
(* UPDATE and upsert_current one transaction whose INSERT ... ON CONFLICT   *)
(* waits for the other run's rows and then sees them committed, so each is  *)
(* one step on the table.                                                   *)
Runs == {1, 2}

\* the tables the runs may find: an account has no row, or a row written at
\* time 1, flagged or not
Tables ==
    UNION {[S -> {[cd |-> c, count |-> 1, first |-> 1, last |-> 1] : c \in BOOLEAN}] :
              S \in SUBSET Ids}

OverlapInit ==
    /\ prog = "overlap"
    /\ pc = [r \in Runs |-> "m_fetched"]
    /\ out \in Lists
    /\ store \in Tables
    /\ store0 = store
    /\ clock = 1
    /\ prev_ids = [r \in Runs |-> {}]
    /\ utcnow = [r \in Runs |-> 0]
    /\ error = [r \in Runs |-> ""]
    /\ curr_ids = SeqIds(out)
    /\ newly = <<>>
    /\ upstream = <<>>
    /\ validAuth = {}
    /\ token = <<>>
    /\ page_limit = 0
    /\ req = NoReq
    /\ resp = NoResp
    /\ attempt = 0
    /\ seen429 = 0
    /\ caller = ""
    /\ hres = NoResult
    /\ offset = 0
    /\ items = <<>>
    /\ posted = <<>>
    /\ sent = <<>>
    /\ lastRun = [ok |-> FALSE, ids |-> {}]
    /\ idx = 0
    /\ headers = NoHeaders
    /\ probeLog = <<>>
    /\ fn = ""
    /\ arg = <<>>
    /\ ret = <<>>

overlapFrame ==
    <<prog, upstream, validAuth, req, resp, attempt, seen429, caller, hres, store0,
      offset, out, items, curr_ids, newly, posted, sent, lastRun, token, page_limit,
      idx, headers, probeLog, fn, arg, ret>>

\* main, line 248, in run r: prev_ids = load_prev_ids()
OverlapLoad(r) ==
    /\ pc[r] = "m_fetched"
    /\ prev_ids' = [prev_ids EXCEPT ![r] = load_prev_ids(store)]
    /\ pc' = [pc EXCEPT ![r] = "m_diffed"]
    /\ UNCHANGED <<overlapFrame, store, clock, utcnow, error>>

\* main, line 252, and upsert_current, line 139, in run r: if current, the
\* call, which reads the time before it opens its connection
OverlapNow(r) ==
    /\ pc[r] = "m_diffed"
    /\ IF out = <<>>
       THEN /\ pc' = [pc EXCEPT ![r] = "m_upserted"]
            /\ UNCHANGED <<clock, utcnow>>
       ELSE /\ clock' = clock + 1
            /\ utcnow' = [utcnow EXCEPT ![r] = clock + 1]
            /\ pc' = [pc EXCEPT ![r] = "m_upsert"]
    /\ UNCHANGED <<overlapFrame, store, prev_ids, error>>

\* upsert_current, lines 180-182, in run r: the transaction commits, or fails
\* at some row and ends the run
OverlapUpsert(r) ==
    /\ pc[r] = "m_upsert"
    /\ \/ /\ ~CardinalityViolation(out)
          /\ store' = upsert_current(store, out, Len(out), utcnow[r])
          /\ pc' = [pc EXCEPT ![r] = "m_upserted"]
          /\ UNCHANGED error
       \/ \E k \in FailPoints(out) :
             /\ store' = upsert_current(store, out, k, utcnow[r])
             /\ pc' = [pc EXCEPT ![r] = "aborted"]
             /\ error' = [error EXCEPT ![r] = UpsertError(out, k)]
    /\ UNCHANGED <<overlapFrame, clock, prev_ids, utcnow>>

\* main, line 255, in run r: mark_reconnected(prev_ids, curr_ids), which
\* returns, or fails in its UPDATE and ends the run
OverlapMark(r) ==
    /\ pc[r] = "m_upserted"
    /\ \/ /\ store' = mark_reconnected(store, prev_ids[r], curr_ids)
          /\ pc' = [pc EXCEPT ![r] = "m_marked"]
          /\ UNCHANGED error
       \/ /\ prev_ids[r] \ curr_ids # {}
          /\ pc' = [pc EXCEPT ![r] = "aborted"]
          /\ error' = [error EXCEPT ![r] = "OperationalError in mark_reconnected"]
          /\ UNCHANGED store
    /\ UNCHANGED <<overlapFrame, clock, prev_ids, utcnow>>

OverlapNext ==
    \E r \in Runs :
        \/ OverlapLoad(r)
        \/ OverlapNow(r)
        \/ OverlapUpsert(r)
        \/ OverlapMark(r)

OverlapSpec == OverlapInit /\ [][OverlapNext]_vars

(***************************************************************************)
(* The claims about the monitor's reconciliation. store0 is the table as   *)
(* the run found it; Flagged(s) are the identifiers s flags as             *)
(* currently disconnected; the run's fetch is out.                         *)
(***************************************************************************)
Flagged(s) == {i \in DOMAIN s : s[i].cd}
Fetched == SeqIds(out)
AfterDiff == pc \in {"m_diffed", "m_upserted", "m_marked", "done"}
AfterUpsert == pc \in {"m_upserted", "m_marked", "done"}
AfterMark == pc \in {"m_marked", "done"}

\* C1: in a run, disconnect_count grows by exactly 1 for an identifier of the
\* fetch whose row was flagged false before the upsert, stays as it was for a
\* row that was already flagged true (and for a row not in the fetch), and is
\* 1 for a row the run inserts.
C1_CountPerTransition ==
    /\ \A i \in DOMAIN store0 :
          /\ i \in DOMAIN store
          /\ store0[i].cd => store[i].count = store0[i].count
          /\ store[i].count \in {store0[i].count, store0[i].count + 1}
    /\ \A i \in DOMAIN store \ DOMAIN store0 : store[i].count = 1
    /\ AfterUpsert =>
          LET fetched == Fetched IN
          \A i \in Ids :
             /\ (i \in fetched /\ i \in DOMAIN store0 /\ ~store0[i].cd)
                   => store[i].count = store0[i].count + 1
             /\ (i \in fetched /\ i \notin DOMAIN store0)
                   => (i \in DOMAIN store /\ store[i].count = 1)
             /\ (i \notin fetched /\ i \in DOMAIN store0)
                   => store[i].count = store0[i].count

\* C1's case: a row that was flagged false is in the fetch and has been
\* upserted, and its count is now 2
C1_Witness ==
    /\ AfterUpsert
    /\ \E i \in Fetched :
          /\ i \in DOMAIN store0
          /\ ~store0[i].cd
          /\ store0[i].count = 1
          /\ store[i].count = 2

\* C2: the newly-disconnected list of a run, and what the dispatcher is handed,
\* is the fetch's identifier set minus the identifiers flagged before the
\* run's upsert; a run whose fetch has the identifiers of the last completed
\* run has nothing newly disconnected and hands nothing over.
C2_NewlyIsCurrentMinusPrevious ==
    /\ AfterDiff => /\ SeqIds(newly) = Fetched \ Flagged(store0)
                    /\ Len(newly) = Cardinality(SeqIds(newly))
    /\ pc = "done" => posted = newly
    /\ pc \notin {"done", "aborted"} => posted = <<>>
    /\ (AfterDiff /\ lastRun.ok /\ Fetched = lastRun.ids /\ pc # "done")
          => newly = <<>>

\* C2's case: the second of two runs with the same data, which is not empty,
\* has computed its diff and written the store
C2_Witness ==
    /\ pc = "m_marked"
    /\ lastRun.ok
    /\ Fetched = lastRun.ids
    /\ Cardinality(Fetched) >= 2
    /\ newly = <<>>

\* C3: once mark_reconnected has run, the rows the run switched to false are
\* exactly those flagged before and not in the fetch (and none is switched
\* before); a completed run whose fetch is empty leaves no row flagged and
\* sends nothing.
C3_ReconnectedIsPreviousMinusCurrent ==
    LET switched == {i \in DOMAIN store0 : store0[i].cd /\ ~store[i].cd} IN
    /\ AfterMark => switched = Flagged(store0) \ Fetched
    /\ pc \in {"m_req", "m_sleep", "m_fetched", "m_diffed", "m_upserted"}
          => switched = {}
    /\ (pc = "done" /\ out = <<>>)
          => /\ Flagged(store) = {}
             /\ sent = <<>>
             /\ posted = <<>>

\* C3's case: a run with an empty fetch has completed on a table that
\* flagged two rows
C3_Witness ==
    /\ pc = "done"
    /\ out = <<>>
    /\ Cardinality(Flagged(store0)) >= 2

\* C4: after a completed run the rows flagged true are exactly the fetch's
\* identifiers: those flagged before and absent are false, those new to the
\* table have count 1, those flagged before and present keep their count.
C4_FlaggedIsLatestFetch ==
    pc = "done" =>
        /\ Flagged(store) = Fetched
        /\ \A i \in Flagged(store0) \ Fetched : ~store[i].cd
        /\ \A i \in Fetched \ DOMAIN store0 : store[i].count = 1
        /\ \A i \in Fetched \cap Flagged(store0) : store[i].count = store0[i].count

\* C4's case: previous {1,2}, fetch {2,3} (the spec's scenario on three
\* accounts), and also a row that comes back after it was reconnected
C4_Witness ==
    /\ pc = "done"
    /\ Flagged(store0) = {1, 2}
    /\ Fetched = {2, 3}
    /\ 3 \notin DOMAIN store0
    /\ ~store[1].cd

\* C5: a run never changes the first_disconnected_at of a row it found, and
\* never lowers its last_seen_disconnected_at; a row it inserts gets both
\* from the run's clock.
C5_FirstFixedLastMonotone ==
    /\ \A i \in DOMAIN store0 :
          /\ i \in DOMAIN store
          /\ store[i].first = store0[i].first
          /\ store[i].last >= store0[i].last
    /\ \A i \in DOMAIN store \ DOMAIN store0 :
          store[i].first = clock /\ store[i].last = clock
    /\ \A i \in DOMAIN store : store[i].first <= store[i].last

\* C5's case: a row found by the run has been upserted again (its last seen
\* time moved) and then marked reconnected by a later run
C5_Witness ==
    \E i \in DOMAIN store0 :
        /\ store0[i].last > store0[i].first
        /\ pc = "done"
        /\ store0[i].cd
        /\ ~store[i].cd

(***************************************************************************)
(* The claims about the HTTP client. seen429 counts the 429 responses the  *)
(* current http_get call has received, which are consecutive: any other    *)
(* response ends the call.                                                 *)
(***************************************************************************)
RateLimitExhausted(res) ==
    res.exc = "NonRecoverableHTTPError" /\ res.msg = "Too many 429 responses"

\* C6: an http_get call that gets at most MAX_429_RETRIES 429s and then a 200
\* returns that response; it raises the rate-limit error exactly when it has
\* got MAX_429_RETRIES + 1 429s, and never asks again after that.
C6_Retries429 ==
    /\ seen429 <= MAX_429_RETRIES + 1
    /\ (pc = "h_ret" /\ resp.status = 200 /\ resp.text \in {"json", "garbage"})
          => (seen429 <= MAX_429_RETRIES /\ hres = [exc |-> "", msg |-> "", resp |-> resp])
    /\ seen429 = MAX_429_RETRIES + 1 => (pc = "h_ret" /\ RateLimitExhausted(hres))
    /\ RateLimitExhausted(hres) => seen429 = MAX_429_RETRIES + 1
    /\ pc = "h_req" => (hres = NoResult /\ seen429 <= MAX_429_RETRIES)

\* C6's case: three 429s, then a 200, and http_get has returned the 200
C6_Witness ==
    /\ pc = "h_ret"
    /\ seen429 = 3
    /\ resp.status = 200
    /\ hres.resp = resp
    /\ hres.exc = ""

\* the fetch has been answered 429 and is waiting to ask again
Got429 ==
    \/ pc = "m_sleep"
    \/ pc = "h_req" /\ seen429 > 0

\* the fetch is over: it has its pages, or it has failed
FetchOver == pc \notin {"m_req", "m_sleep", "h_req"}

\* C7: a fetch that is answered 429 ends all the same, with its pages or with
\* an error: no fetch retries for ever.
C7_NoEndless429 == Got429 ~> FetchOver

(***************************************************************************)
(* The claims about the auth negotiation. The credential is <<"T">>        *)
(* whatever form the token was given in.                                   *)
(***************************************************************************)
RawAuth == <<"T">>
BearerAuth == <<"Bearer", "T">>
Negotiated == headers # NoHeaders
NegotiationFailed == pc = "e_exit" /\ headers = NoHeaders
InHttp == pc \in {"h_req", "h_ret"}

\* a probe that came back with a success envelope
ProbeSucceeded(e) ==
    e.exc = "" /\ e.resp.status = 200 /\ e.resp.text = "json" /\ e.resp.ok

\* a probe that came back with an auth failure
ProbeRejected(e) == e.exc = "TokenInvalidError"

\* C8: when the endpoint accepts the Bearer form only, a negotiation that
\* returns has probed the raw form first, which failed, then the Bearer form,
\* which succeeded, and returns the Bearer headers; every request after the
\* negotiation is a page request with exactly the negotiated headers, and the
\* probes stay the two that were made.
C8_BearerOnlyNegotiation ==
    /\ (validAuth = {BearerAuth} /\ Negotiated) =>
          /\ headers = [Accept |-> "application/json", Authorization |-> BearerAuth]
          /\ Len(probeLog) = 2
          /\ probeLog[1].auth = RawAuth
          /\ ~ProbeSucceeded(probeLog[1])
          /\ probeLog[2].auth = BearerAuth
          /\ ProbeSucceeded(probeLog[2])
    /\ (validAuth = {BearerAuth} /\ ~Negotiated) =>
          \A k \in 1..Len(probeLog) : ~ProbeSucceeded(probeLog[k])
    /\ (Negotiated /\ InHttp) =>
          /\ caller = "page"
          /\ req.headers = headers
          /\ req.timeout = REQUEST_TIMEOUT
          /\ req.limit = page_limit
    /\ (prog = "exporter" /\ InHttp /\ ~Negotiated) =>
          /\ caller = "probe"
          /\ req.timeout = TOKEN_PROBE_TIMEOUT
          /\ req.limit = 1
          /\ req.offset = 0

\* C8's case: Bearer only, and the request for a later page is in flight
C8_Witness ==
    /\ validAuth = {BearerAuth}
    /\ pc = "h_req"
    /\ caller = "page"
    /\ req.offset > 0
    /\ req.headers.Authorization = BearerAuth

\* C9: candidates are probed in the order raw, Bearer; the negotiation returns
\* the headers of the first probe that came back with a success envelope and
\* probes nothing after it; it fails exactly when both candidates have been
\* probed and neither succeeded, so a rejected first candidate only leads to
\* the second.
C9_FirstSuccessWins ==
    prog = "exporter" =>
        /\ Len(probeLog) <= 2
        /\ \A k \in 1..Len(probeLog) :
              probeLog[k].auth = IF k = 1 THEN RawAuth ELSE BearerAuth
        /\ \A k \in 1..(Len(probeLog) - 1) : ~ProbeSucceeded(probeLog[k])
        /\ Negotiated <=>
              (probeLog # <<>> /\ ProbeSucceeded(probeLog[Len(probeLog)]))
        /\ Negotiated => headers.Authorization = probeLog[Len(probeLog)].auth
        /\ NegotiationFailed <=>
              (Len(probeLog) = 2 /\ \A k \in 1..2 : ~ProbeSucceeded(probeLog[k]))
        /\ NegotiationFailed => error = "TokenInvalidError"
        /\ (Len(probeLog) = 1 /\ ~Negotiated) => idx = 1 /\ pc # "e_exit"

\* C9's case: the raw candidate was rejected as an auth failure, the Bearer
\* candidate was rejected too, and the negotiation has failed
C9_Witness ==
    /\ NegotiationFailed
    /\ Len(probeLog) = 2
    /\ ProbeRejected(probeLog[1])
    /\ ProbeRejected(probeLog[2])

(***************************************************************************)
(* The claims about pagination. A page is being requested at offset when   *)
(* fetch_disconnected is at its request or sleeping after a 429, and when  *)
(* http_get runs for fetch_page.                                           *)
(***************************************************************************)
MonitorRequesting == pc \in {"m_req", "m_sleep"}
ExporterRequesting == pc = "h_req" /\ caller = "page"

\* what both fetches do: each request is at the offset that is the number of
\* records consumed so far (so the first is at 0 and a 429 retry, which
\* consumes nothing, is at the same offset), and the records consumed are the
\* upstream list's first ones, in order (as long as the fetch lasts)
SequentialPrefix ==
    /\ (MonitorRequesting \/ ExporterRequesting \/ pc = "e_stream") => offset = Len(out)
    /\ (ExporterRequesting \/ pc = "m_sleep") => req.offset = offset
    /\ (MonitorRequesting \/ pc = "m_fetched" \/ prog = "exporter") =>
          /\ Len(out) <= Len(upstream)
          /\ out = SubSeq(upstream, 1, Len(out))

\* C10 as stated: both fetches ask for a further page only after a full page,
\* stop at the first page shorter than the limit, and end with the whole list
\* (fetch_disconnected when the answers it took for pages were pages).
C10_StopAtFirstShortPage ==
    /\ SequentialPrefix
    /\ (MonitorRequesting /\ offset > 0) => Len(items) = REQUEST_LIMIT_PER_PAGE
    /\ (ExporterRequesting /\ offset > 0) => Len(items) = page_limit
    /\ pc = "m_fetched" => Len(items) < REQUEST_LIMIT_PER_PAGE
    /\ pc = "e_done" => Len(items) < page_limit
    /\ (pc = "m_fetched" /\ resp.ok) => out = upstream
    /\ pc = "e_done" => out = upstream

\* C10 as amended: fetch_disconnected asks for a further page only after a
\* full page and stops at the first page shorter than the limit;
\* stream_accounts asks for a further page after every page that is not empty
\* and stops at the first empty page; both end with the whole list
\* (fetch_disconnected when the answers it took for pages were pages).
C10_Pagination ==
    /\ SequentialPrefix
    /\ (MonitorRequesting /\ offset > 0) => Len(items) = REQUEST_LIMIT_PER_PAGE
    /\ (ExporterRequesting /\ offset > 0) => (items # <<>> /\ Len(items) <= page_limit)
    /\ pc = "m_fetched" => Len(items) < REQUEST_LIMIT_PER_PAGE
    /\ pc = "e_done" => items = <<>>
    /\ (pc = "m_fetched" /\ resp.ok) => out = upstream
    /\ pc = "e_done" => out = upstream

\* C10's case: stream_accounts has consumed a page that is not empty and is
\* shorter than the limit, and is requesting a further page
C10_Witness ==
    /\ ExporterRequesting
    /\ items # <<>>
    /\ Len(items) < page_limit
    /\ req.offset = Len(out)
    /\ req.offset > 0

(***************************************************************************)
(* The claims about the errors of a page request.                          *)
(***************************************************************************)
\* the response rejects the credential: by its status or by its body
CredentialRejected(r) ==
    \/ r.status \in {401, 403}
    \/ r.text \in {"Invalid Token", "jwt malformed", "json: Invalid Token"}
ServerFailed(r) == 500 <= r.status /\ r.status < 600

\* C15: a page request whose response rejects the credential fails with the
\* auth-rejected error, at any page (http_get raises TokenInvalidError,
\* fetch_disconnected never takes such a response for a page); a 5xx response
\* that does not name the credential ends http_get at once with the server
\* error, which is another error than the auth-rejected one.
C15_AuthRejectedAndServerError ==
    /\ (pc = "h_ret" /\ CredentialRejected(resp)) =>
          (hres.exc = "TokenInvalidError" /\ hres.msg = "Auth rejected")
    /\ (pc = "h_ret" /\ ServerFailed(resp) /\ ~CredentialRejected(resp)) =>
          (hres.exc = "NonRecoverableHTTPError" /\ hres.msg = "Server error")
    /\ (pc = "h_req" /\ resp # NoResp) => resp.status = 429
    /\ (pc = "m_fetched" /\ resp # NoResp) => ~CredentialRejected(resp)

(***************************************************************************)
(* The claims about the order of a run.                                    *)
(***************************************************************************)
Fetching == pc \in {"m_req", "m_sleep"}
FetchFailed == pc = "aborted" /\ error \in {"HTTPError", "JSONDecodeError"}

\* C13: the store is as the run found it until the fetch is over and the diff
\* is made; nothing is handed to the dispatcher or sent before the upsert and
\* the reconnect marking are done, so what is handed over is flagged in the
\* store and what was flagged and is gone from the fetch is not; a run whose
\* fetch failed (an error status, a body that does not parse) leaves the store
\* as it found it and sends nothing.
C13_FetchThenStoreThenNotify ==
    /\ (Fetching \/ pc \in {"m_fetched", "m_diffed"}) => store = store0
    /\ pc \in {"m_req", "m_sleep", "m_fetched", "m_diffed", "m_upserted", "m_marked"}
          => (posted = <<>> /\ sent = <<>>)
    /\ posted # <<>> =>
          /\ SeqIds(posted) \subseteq Flagged(store)
          /\ SeqIds(posted) \cap Flagged(store0) = {}
          /\ Flagged(store) = lastRun.ids
    /\ FetchFailed => (store = store0 /\ posted = <<>> /\ sent = <<>>)

\* C13's case: a run that found rows flagged has been ended by an error
\* status of the endpoint
C13_Witness ==
    /\ FetchFailed
    /\ error = "HTTPError"
    /\ Flagged(store0) # {}

(***************************************************************************)
(* The claims about the dispatcher. posted is the list post_slack_grouped  *)
(* was called with, sent its chat_postMessage calls, made or failed.       *)
(***************************************************************************)
Notified == posted # <<>> /\ pc \in {"done", "aborted"}
GroupsOf(rows) == {GroupOf(rows[k]) : k \in 1..Len(rows)}
SentTo(g) == {k \in 1..Len(sent) : sent[k].group = g}

\* C12: when post_slack_grouped has been called, every group of the list that
\* has a destination had its send attempted, whatever the other sends did, and
\* no failure of a send ended the run.
C12_SendFailureIsolated ==
    Notified =>
        /\ \A g \in GroupsOf(posted) \cap CHANNEL_MAP : SentTo(g) # {}
        /\ error \notin SendOutcomes

\* C19: post_slack_grouped calls chat_postMessage at most once per group, only
\* for groups of the list handed over that have a destination, and once for
\* each of them when it returns; a message lists the records of its group, each
\* once, and no record of another group, so a record is in one message at
\* most, and in exactly one when the function returns; the count of a message
\* is the number of its records; its totals are the numbers of identifiers of
\* the fetch and of identifiers flagged before the run.
C19_OneMessagePerGroup ==
    /\ ~Notified => sent = <<>>
    /\ \A k \in 1..Len(sent) :
          /\ sent[k].group \in GroupsOf(posted) \cap CHANNEL_MAP
          /\ SentTo(sent[k].group) = {k}
          /\ sent[k].ids = SelectSeq(posted, LAMBDA i : GroupOf(i) = sent[k].group)
          /\ sent[k].count = Len(sent[k].ids)
          /\ sent[k].count > 0
    /\ \A i \in SeqIds(posted) :
          Cardinality({k \in 1..Len(sent) : i \in SeqIds(sent[k].ids)}) <= 1
    /\ (pc = "done" /\ SLACK_BOT_TOKEN # "") =>
          /\ \A g \in GroupsOf(posted) \cap CHANNEL_MAP : Cardinality(SentTo(g)) = 1
          /\ \A i \in SeqIds(posted) :
                Cardinality({k \in 1..Len(sent) : i \in SeqIds(sent[k].ids)}) = 1
          /\ \A k \in 1..Len(sent) :
                /\ sent[k].total_curr = Cardinality(Fetched)
                /\ sent[k].total_prev = Cardinality(Flagged(store0))

\* C19's case: a run with two newly disconnected records of different groups
\* has completed, with one message for each
C19_Witness ==
    /\ pc = "done"
    /\ Len(posted) = 2
    /\ Len(sent) = 2
    /\ sent[1].group # sent[2].group
    /\ sent[1].total_prev > 0

(***************************************************************************)
(* The claims about the pure functions, under FnSpec.                      *)
(***************************************************************************)
\* the rules of the dispatcher, in order: substring, group
Rules ==
    <<[sub |-> "00VO", group |-> "VOLTIC"], [sub |-> "00EN", group |-> "ENDY"],
      [sub |-> "00SM", group |-> "SCALEDMAIL"], [sub |-> "00CI", group |-> "CHEAPINBOXES"],
      [sub |-> "00WI", group |-> "WINNR"], [sub |-> "00IKR", group |-> "INBOXKIT"],
      [sub |-> "00PK", group |-> "PEEKER"]>>

\* the substring occurs in the tags, whatever the case of the letters
Occurs(sub, text) == \E k \in 1..Len(text) : Upper(text[k]) = sub
Matching(text) == {k \in 1..Len(Rules) : Occurs(Rules[k].sub, text)}

\* C11: classify_group returns one group: that of the first rule, in rule
\* order, whose substring occurs in the tags whatever its case, and DEFAULT
\* when no rule matches; tags that match the ENDY substring only give ENDY.
C11_FirstMatchingRule ==
    (fn = "classify_group" /\ ret # <<>>) =>
        /\ Len(ret) = 1
        /\ Matching(arg) = {} => ret[1] = "DEFAULT"
        /\ Matching(arg) # {} =>
              \E k \in Matching(arg) :
                 /\ \A j \in Matching(arg) : k <= j
                 /\ ret[1] = Rules[k].group
        /\ Matching(arg) = {2} => ret[1] = "ENDY"

\* C11's case: two tags, the first in lower case with the ENDY substring, the
\* second matching no rule
C11_Witness ==
    /\ fn = "classify_group"
    /\ arg = <<"00en", ",", "x">>
    /\ ret = <<"ENDY">>

\* C14: disconnection_type is a function of the two health flags: both false
\* gives "SMTP + IMAP" (BOTH), SMTP false and IMAP not false gives "SMTP", IMAP
\* false and SMTP not false gives "IMAP", anything else None (NONE); a missing
\* flag counts as true, so an item without flags gets None.
C14_DisconnectionType ==
    (fn = "normalize" /\ ret # <<>>) =>
        LET smtp_false == arg.smtp = "false"
            imap_false == arg.imap = "false"
            t == ret[1].disconnection_type
        IN /\ (smtp_false /\ imap_false) => t = "SMTP + IMAP"
           /\ (smtp_false /\ ~imap_false) => t = "SMTP"
           /\ (~smtp_false /\ imap_false) => t = "IMAP"
           /\ (~smtp_false /\ ~imap_false) => t = "None"
           /\ (arg.smtp = "missing" /\ arg.imap = "missing") => t = "None"

\* C14's case: an item without the SMTP flag whose IMAP flag is false
C14_Witness ==
    /\ fn = "normalize"
    /\ arg.smtp = "missing"
    /\ arg.imap = "false"
    /\ ret # <<>>
    /\ ret[1].disconnection_type = "IMAP"

(*********************** C16: the upsert is one transaction *****************)
\* the rows this run's upsert has written
Written == {i \in DOMAIN store : store[i].last = clock}

UpsertErrors == {"CardinalityViolation", "OperationalError in upsert_current"}

\* C16: upsert_current is all-or-nothing for the batch of a run. A run that
\* upsert_current has ended with an exception, after however many rows, leaves
\* the table as it was when the run started; and the table never shows part of
\* the batch: either no row carries this run's timestamp, or upsert_current
\* has returned and every fetched identifier carries it.
C16_UpsertAllOrNothing ==
    /\ (pc = "aborted" /\ error \in UpsertErrors) => (store = store0 /\ Written = {})
    /\ pc \notin {"m_upserted", "m_marked", "done", "aborted"} => Written = {}
    /\ pc \in {"m_upserted", "m_marked", "done"} =>
          /\ Written = curr_ids
          /\ \A i \in curr_ids : store[i].cd

\* C16's case: upsert_current failed at the second of two rows for one
\* account, after the first had been written, in a run that started with rows
\* in the table, one of them of an account that had come back
C16_Witness ==
    /\ pc = "aborted"
    /\ error = "CardinalityViolation"
    /\ store = store0
    /\ \E i \in DOMAIN store0 : ~store0[i].cd

(*********************** C17: one identifier twice in the fetch *************)
NoRepeat(q) == \A a, b \in 1..Len(q) : q[a] = q[b] => a = b

\* C17: when the fetched list holds one identifier more than once, the
\* pipeline deduplicates by identifier: the run does not fail because of the
\* duplicate, the identifier appears at most once in the newly-disconnected
\* list, and its disconnect_count changes by at most 1 in the run.
C17_DeduplicatesById ==
    /\ error # "CardinalityViolation"
    /\ NoRepeat(newly)
    /\ \A i \in DOMAIN store :
          /\ i \in DOMAIN store0 => store[i].count <= store0[i].count + 1
          /\ i \notin DOMAIN store0 => store[i].count = 1

(*********************** C18: what mark_reconnected touches *****************)
\* C18: mark_reconnected changes only the currently_disconnected flag of the
\* rows whose identifier is in previous minus current: once it has run, such a
\* row is the row the run started with but for the flag, and a row that is
\* neither in previous nor in current is the row the run started with. No
\* operation of the pipeline deletes a row: every identifier stored when the
\* run started is still stored, with a disconnect_count that is not smaller.
C18_MarkTouchesOnlyTheFlag ==
    /\ DOMAIN store0 \subseteq DOMAIN store
    /\ \A i \in DOMAIN store0 : store[i].count >= store0[i].count
    /\ pc \in {"m_marked", "done"} =>
          /\ \A i \in prev_ids \ curr_ids :
                store[i] = [store0[i] EXCEPT !.cd = FALSE]
          /\ \A i \in DOMAIN store \ (prev_ids \cup curr_ids) :
                i \in DOMAIN store0 /\ store[i] = store0[i]
          /\ \A i \in curr_ids : store[i].cd

\* C18's case: mark_reconnected has run over a table with an account that
\* came back, an account that is still disconnected and a third, stored
\* earlier, that is in neither set
C18_Witness ==
    /\ pc = "m_marked"
    /\ prev_ids \ curr_ids # {}
    /\ prev_ids \cap curr_ids # {}
    /\ DOMAIN store \ (prev_ids \cup curr_ids) # {}

(*********************** C20: the delay before a 429 retry ******************)
\* the k-th 429 of the call carried a Retry-After header that float() parses
Parseable(h) == h \notin {"None", ""} /\ ~FloatRaises(h)

\* C20: in http_get the delay before the k-th consecutive 429 retry is the
\* Retry-After value when the header is present and parseable, and otherwise
\* a backoff that grows exponentially with k: a fallback delay is at least
\* double the fallback delay of the attempt before it.
C20_RetryAfterOrExponentialBackoff ==
    fn = "sleep_s" =>
        /\ \A k \in 1..Len(ret) : Parseable(arg[k]) => ret[k] = Float(arg[k])
        /\ \A k \in 1..(Len(ret) - 1) :
              (~Parseable(arg[k]) /\ ~Parseable(arg[k + 1])) => ret[k + 1] >= 2 * ret[k]

(*********************** C21: who is told of a flagged account **************)
\* upsert_current of this run has committed the transition of account i to
\* currently_disconnected = TRUE
Committed(i) ==
    /\ i \in Written
    /\ store[i].cd
    /\ ~(i \in DOMAIN store0 /\ store0[i].cd)

\* a chat_postMessage call of this run lists account i
InAttempt(i) ==
    \E k \in 1..Len(sent) : \E j \in 1..Len(sent[k].ids) : sent[k].ids[j] = i

\* why no later run makes up for it: an account flagged in the table when a
\* run starts is in prev_ids, so in none of the run's chat_postMessage calls
FlaggedNotSent == \A i \in load_prev_ids(store0) : ~InAttempt(i)

\* the last run modelled has ended with an exception
LastRunFailed == clock = MaxRuns /\ pc = "aborted"

\* C21: an account whose transition to currently_disconnected = TRUE has been
\* committed is listed in a chat_postMessage call, of that run or of a later
\* one, whatever happens to the run after the upsert. Said of a run that is
\* followed by another, of an endpoint that lets every fetch end, and of a
\* last run that gets to its end.
C21_NotifiedAtLeastOnce ==
    \A i \in Ids :
        ([]<>FetchOver) =>
            [](Committed(i) /\ clock < MaxRuns => <>(InAttempt(i) \/ LastRunFailed))

(*********************** C22: two runs on one fetch *************************)
\* the table a single run on the fetch leaves, its upsert_current reading t
SingleRun(t) ==
    mark_reconnected(upsert_current(store0, out, Len(out), t),
                     load_prev_ids(store0), curr_ids)

\* both runs are through load_prev_ids, upsert_current and mark_reconnected
BothThrough == \A r \in Runs : pc[r] = "m_marked"

\* disconnect_count of account i in table s, 0 without a row
CountIn(s, i) == IF i \in DOMAIN s THEN s[i].count ELSE 0

\* C22 as stated: whatever the interleaving of the two runs' steps, no
\* account's disconnect_count is raised more than once in total, and when both
\* are through the table is the table a single run on the fetch leaves.
C22_OverlapEqualsSingleRun ==
    /\ \A i \in Ids : CountIn(store, i) <= CountIn(store0, i) + 1
    /\ BothThrough => \E t \in 0..clock : store = SingleRun(t)

\* C22, amended: whatever the interleaving, no account's disconnect_count is
\* raised more than once in total, and when both runs are through the table
\* has the rows, the flags and the counts a single run on the fetch leaves;
\* each timestamp of a row is the one a single run leaves with the time one
\* of the two runs read, not the same run for every timestamp.
C22_OverlapFlagsAndCounts ==
    /\ \A i \in Ids : CountIn(store, i) <= CountIn(store0, i) + 1
    /\ BothThrough =>
          /\ DOMAIN store = DOMAIN SingleRun(0)
          /\ \A i \in DOMAIN store :
                /\ store[i].cd = SingleRun(0)[i].cd
                /\ store[i].count = SingleRun(0)[i].count
                /\ \E r \in Runs : store[i].first = SingleRun(utcnow[r])[i].first
                /\ \E r \in Runs : store[i].last = SingleRun(utcnow[r])[i].last

\* C22's case: run 2 read the flags between run 1's upsert and run 1's
\* mark_reconnected, and both are through; an account that was not flagged has
\* been counted, one that is not fetched any more has been marked, and a new
\* account has its two timestamps from different runs
C22_Witness ==
    /\ BothThrough
    /\ \E i \in curr_ids \cap DOMAIN store0 :
          /\ ~store0[i].cd
          /\ i \in prev_ids[2] \ prev_ids[1]
          /\ store[i].count = store0[i].count + 1
    /\ \E i \in DOMAIN store0 \ curr_ids :
          /\ i \in prev_ids[1] \cap prev_ids[2]
          /\ ~store[i].cd
    /\ \E i \in curr_ids \ DOMAIN store0 : store[i].first # store[i].last

Next == MonitorNext \/ ExporterNext

Spec == Init /\ [][Next]_vars

\* the two scripts are separate programs: each on its own
MonitorStart == Init /\ prog = "monitor"
MonitorSpec == MonitorStart /\ [][MonitorNext]_vars

ExporterStart == Init /\ prog = "exporter"
ExporterSpec == ExporterStart /\ [][ExporterNext]_vars

\* every step that can be taken is taken in the end: the scripts do not pause
FairSpec == Spec /\ WF_vars(Next)
\* the monitor, started again and again by its scheduler
MonitorFairSpec == MonitorStart /\ [][MonitorNext]_vars /\ WF_vars(MonitorNext)

====
